---- MODULE Spec2Model ----
(***************************************************************************)
(* A model of bot.py, the Telegram business-card bot: the validators, the  *)
(* card generator make_card (theme lookup, vCard payload, logo decoding,   *)
(* shrink-to-fit text layout) and the nine-step conversation that collects *)
(* the record make_card renders.                                           *)
(*                                                                         *)
(* Text is modelled as a sequence of one-character strings, so that strip, *)
(* lower, replace, join and split act on characters as the Python code     *)
(* does.  A dict is a function whose domain is the set of its keys.        *)
(***************************************************************************)
EXTENDS Integers, Sequences, FiniteSets, TLC

VARIABLES
    conv,       \* ConversationHandler's state of the user in each chat
    user_data,  \* context.user_data: one dict for the user, over all chats
    chat,       \* the chat of the update handled last
    handler,    \* the callback that handled it ("none": no handler matched)
    prev,       \* conv[chat] when that update arrived
    out,        \* what the callback sent to the user, in order
    card,       \* the make_card call of that update: its argument and outcome
    font,       \* which font load_font finds on this host
    row         \* one line of the background: its theme, its y and its fill

vars == <<conv, user_data, chat, handler, prev, out, card, font, row>>

----------------------------------------------------------------------------
(* Characters and Python's str methods                                     *)

UpperSeq ==
    <<"A","B","C","D","E","F","G","H","I","J","K","L","M",
      "N","O","P","Q","R","S","T","U","V","W","X","Y","Z">>

LowerSeq ==
    <<"a","b","c","d","e","f","g","h","i","j","k","l","m",
      "n","o","p","q","r","s","t","u","v","w","x","y","z">>

Range(s) == {s[i] : i \in DOMAIN s}

Upper == Range(UpperSeq)

Letters == Upper \cup Range(LowerSeq)

Digits == {"0","1","2","3","4","5","6","7","8","9"}

Whitespace == {" ", "\t", "\n", "\r"}

\* s repeated n times
Rep(s, n) == [i \in 1..(n * Len(s)) |-> s[((i - 1) % Len(s)) + 1]]

RECURSIVE lstrip(_)
lstrip(s) ==
    IF s # <<>> /\ Head(s) \in Whitespace THEN lstrip(Tail(s)) ELSE s

RECURSIVE rstrip(_)
rstrip(s) ==
    IF s # <<>> /\ s[Len(s)] \in Whitespace
    THEN rstrip(SubSeq(s, 1, Len(s) - 1))
    ELSE s

strip(s) == lstrip(rstrip(s))

lower_char(c) ==
    IF c \in Upper
    THEN LowerSeq[CHOOSE i \in DOMAIN UpperSeq : UpperSeq[i] = c]
    ELSE c

lower(s) == [i \in DOMAIN s |-> lower_char(s[i])]

startswith(s, p) == Len(s) >= Len(p) /\ SubSeq(s, 1, Len(p)) = p

\* s.replace(old, new), leftmost non-overlapping occurrences, old non-empty
RECURSIVE replace(_, _, _)
replace(s, old, new) ==
    IF s = <<>> THEN <<>>
    ELSE IF startswith(s, old)
         THEN new \o replace(SubSeq(s, Len(old) + 1, Len(s)), old, new)
         ELSE <<Head(s)>> \o replace(Tail(s), old, new)

\* sep.join(parts)
RECURSIVE join(_, _)
join(sep, parts) ==
    IF parts = <<>> THEN <<>>
    ELSE IF Len(parts) = 1 THEN parts[1]
    ELSE parts[1] \o sep \o join(sep, Tail(parts))

\* s.split(c) for a one-character separator c
RECURSIVE split(_, _)
split(s, c) ==
    IF \A i \in DOMAIN s : s[i] # c THEN <<s>>
    ELSE LET i == CHOOSE k \in DOMAIN s :
                      s[k] = c /\ \A j \in 1..(k - 1) : s[j] # c
         IN  <<SubSeq(s, 1, i - 1)>> \o split(SubSeq(s, i + 1, Len(s)), c)

----------------------------------------------------------------------------
(* Config                                                                  *)

FIRST == 0
LAST == 1
PHONE == 2
EMAIL == 3
ORG == 4
TITLE == 5
LOGO == 6
THEME == 7
CONFIRM == 8
END == -1

DialogueStates == FIRST..CONFIRM

ocean == <<"o","c","e","a","n">>
forest == <<"f","o","r","e","s","t">>
crimson == <<"c","r","i","m","s","o","n">>
midnight == <<"m","i","d","n","i","g","h","t">>
gold == <<"g","o","l","d">>
rose == <<"r","o","s","e">>

ThemeKeys == {ocean, forest, crimson, midnight, gold, rose}

THEMES ==
    [k \in ThemeKeys |->
        CASE k = ocean ->
               [bg |-> <<(<<10,25,70>>), (<<20,60,130>>)>>,
                accent |-> <<80,180,255>>, text |-> <<255,255,255>>]
          [] k = forest ->
               [bg |-> <<(<<10,35,15>>), (<<25,85,40>>)>>,
                accent |-> <<80,220,120>>, text |-> <<255,255,255>>]
          [] k = crimson ->
               [bg |-> <<(<<70,10,10>>), (<<160,25,25>>)>>,
                accent |-> <<255,100,100>>, text |-> <<255,255,255>>]
          [] k = midnight ->
               [bg |-> <<(<<8,8,25>>), (<<20,20,55>>)>>,
                accent |-> <<140,140,255>>, text |-> <<220,220,255>>]
          [] k = gold ->
               [bg |-> <<(<<50,35,5>>), (<<110,80,15>>)>>,
                accent |-> <<255,210,50>>, text |-> <<255,255,255>>]
          [] k = rose ->
               [bg |-> <<(<<70,15,35>>), (<<155,40,80>>)>>,
                accent |-> <<255,140,170>>, text |-> <<255,255,255>>]]

----------------------------------------------------------------------------
(* Validators                                                              *)

NameMin == 2
NameMax == 40

\* re.fullmatch(r"[A-Za-z ]{2,40}", s.strip())
valid_name(s) ==
    LET t == strip(s)
    IN  /\ Len(t) >= NameMin
        /\ Len(t) <= NameMax
        /\ \A i \in DOMAIN t : t[i] \in Letters \cup {" "}

remove_char(s, c) == SelectSeq(s, LAMBDA x : x # c)

plus91 == <<"+","9","1">>

\* [6-9][0-9]{9}
is_mobile(s) ==
    /\ Len(s) = 10
    /\ s[1] \in {"6","7","8","9"}
    /\ \A i \in DOMAIN s : s[i] \in Digits

\* re.fullmatch(r"(\+91)?[6-9][0-9]{9}", s) after dropping spaces and dashes
valid_phone(s0) ==
    LET s == remove_char(remove_char(s0, " "), "-")
    IN  \/ is_mobile(s)
        \/ startswith(s, plus91) /\ is_mobile(SubSeq(s, 4, Len(s)))

\* re.fullmatch(r"[^@\s]+@[^@\s]+\.[^@\s]+", s)
valid_email(s) ==
    /\ \A i \in DOMAIN s : s[i] \notin Whitespace
    /\ Cardinality({i \in DOMAIN s : s[i] = "@"}) = 1
    /\ LET at == CHOOSE i \in DOMAIN s : s[i] = "@"
       IN  /\ at > 1
           /\ \E dot \in (at + 2)..(Len(s) - 1) : s[dot] = "."

\* fmt_phone without the country code: separators dropped, no "+91" added
fmt_phone_no_prefix(s0) == remove_char(remove_char(s0, " "), "-")

fmt_phone(s0) ==
    LET s == remove_char(remove_char(s0, " "), "-")
    IN  IF startswith(s, plus91) THEN s ELSE plus91 \o s

----------------------------------------------------------------------------
(* Helpers                                                                 *)

\* dict helpers: d[k] = v, d.get(k), "k in d", and the empty dict
EmptyDict == <<>>

has(d, k) == k \in DOMAIN d

put(d, k, v) == [x \in (DOMAIN d) \cup {k} |-> IF x = k THEN v ELSE d[x]]

\* data.get(k) used as a condition, for a str value: present and non-empty
truthy_text(d, k) == has(d, k) /\ d[k] # <<>>

\* The value stored under "logo_bytes": None, or the bytes of a download.
\* Bytes are a sequence of tokens; the first is the file's signature.
None == [none |-> TRUE, bytes |-> <<>>]

Bytes(b) == [none |-> FALSE, bytes |-> b]

get_logo_bytes(d) == IF has(d, "logo_bytes") THEN d["logo_bytes"] ELSE None

\* The signatures Image.open recognises
ImageSignatures == {"FFD8", "89PNG"}

\* load_font(size) returns a TrueType font of that size when one of the four
\* named fonts is installed, and otherwise ImageFont.load_default(), a fixed
\* bitmap font whose glyphs do not scale with size.
Fonts == {"truetype", "default"}

\* draw.textlength(text, font=load_font(size)) under font environment f
textlength(text, size, f) ==
    IF f = "truetype" THEN (Len(text) * size * 3) \div 5 ELSE Len(text) * 6

FLOOR_SIZE == 18
SIZE_STEP == 3

\* The while loop of draw_text_fit: the size the loop ends with
RECURSIVE fit_size(_, _, _, _)
fit_size(text, max_width, size, f) ==
    IF size > FLOOR_SIZE
    THEN IF textlength(text, size, f) <= max_width
         THEN size
         ELSE fit_size(text, max_width, size - SIZE_STEP, f)
    ELSE size

\* draw_text_fit(draw, xy, text, max_width, start_size, color): the one
\* draw.text call it makes, with the width of the text at the drawn size
draw_text_fit(xy, text, max_width, start_size, f) ==
    LET size == fit_size(text, max_width, start_size, f)
    IN  [xy |-> xy, text |-> text, max_width |-> max_width,
         start_size |-> start_size, size |-> size,
         width |-> textlength(text, size, f)]

\* get_logo_image(logo_bytes): None for None or empty bytes; otherwise
\* Image.open(...), which raises on bytes it cannot identify
get_logo_image(logo_bytes) ==
    IF logo_bytes.none \/ logo_bytes.bytes = <<>>
    THEN [raised |-> FALSE, image |-> FALSE]
    ELSE IF Head(logo_bytes.bytes) \in ImageSignatures
         THEN [raised |-> FALSE, image |-> TRUE]
         ELSE [raised |-> TRUE, image |-> FALSE]

----------------------------------------------------------------------------
(* Card generation                                                         *)

W == 1200
H == 660
QR == 400
pad == 14
qr_x == W - QR - 65
qr_y == (H - QR) \div 2
LX == 60
CORNER_SHIFT == 140

\* The fill of row y as the stops run the other way
gradient_fill_reversed(c1, c2, y) ==
    [i \in 1..3 |-> c2[i] + ((c1[i] - c2[i]) * y) \div H]

\* The fill of row y between the stops c1 and c2 (lines 83-85):
\* int(c1[i] + (c2[i]-c1[i]) * (y/H)) per channel. The operand is never
\* negative, so int() is the floor, and c1[i] is whole, so the floor is
\* taken of the quotient alone.
gradient_fill(c1, c2, y) ==
    [i \in 1..3 |-> c1[i] + ((c2[i] - c1[i]) * y) \div H]

NL == <<"\n">>

tag_N == <<"N",":">>
tag_FN == <<"F","N",":">>
tag_ORG == <<"O","R","G",":">>
tag_TITLE == <<"T","I","T","L","E",":">>
tag_TEL == <<"T","E","L",";","T","Y","P","E","=","C","E","L","L",":">>
tag_EMAIL == <<"E","M","A","I","L",":">>
line_BEGIN == <<"B","E","G","I","N",":","V","C","A","R","D">>
line_VERSION == <<"V","E","R","S","I","O","N",":","3",".","0">>
line_END == <<"E","N","D",":","V","C","A","R","D">>

\* filter(None, lines): the non-empty lines, in order
filter_none(lines) == SelectSeq(lines, LAMBDA l : l # <<>>)

\* The payload of lines 96-105, for a dict that has first, last, phone, email
vcard_of(data) ==
    join(NL, filter_none(<<
        line_BEGIN,
        line_VERSION,
        tag_N \o data["last"] \o <<";">> \o data["first"] \o <<";",";",";">>,
        tag_FN \o data["first"] \o <<" ">> \o data["last"],
        IF truthy_text(data, "org") THEN tag_ORG \o data["org"] ELSE <<>>,
        IF truthy_text(data, "title") THEN tag_TITLE \o data["title"] ELSE <<>>,
        tag_TEL \o data["phone"],
        tag_EMAIL \o data["email"],
        line_END >>))

\* The cursor below the optional rows without the minimum
phone_row_y_no_min(y) == y + 10

\* Where the phone row starts when the cursor stands at y: max(y + 10, 335)
phone_row_y(y) == IF y + 10 > 335 THEN y + 10 ELSE 335

\* The text block of lines 138-170, given whether a logo was decoded
layout_of(data, logo, f) ==
    LET tx    == IF logo THEN LX + CORNER_SHIFT ELSE LX
        MAX   == IF logo THEN qr_x - LX - 30 - CORNER_SHIFT ELSE qr_x - LX - 30
        name  == draw_text_fit(<<tx, 65>>,
                               data["first"] \o <<" ">> \o data["last"],
                               MAX, 66, f)
        bar   == <<LX, 210, LX + MAX + (IF tx = LX THEN 140 ELSE 0), 213>>
        y0    == 228
        hasT  == truthy_text(data, "title")
        hasO  == truthy_text(data, "org")
        y1    == IF hasT THEN y0 + 48 ELSE y0
        y2    == IF hasO THEN y1 + 50 ELSE y1
        yp    == phone_row_y(y2)
        ye    == yp + 54
        title == IF hasT
                 THEN <<draw_text_fit(<<LX, y0>>, data["title"], MAX + 140, 36, f)>>
                 ELSE <<>>
        org   == IF hasO
                 THEN <<draw_text_fit(<<LX, y1>>, data["org"], MAX + 140, 34, f)>>
                 ELSE <<>>
        phone == draw_text_fit(<<LX + 52, yp + 4>>, data["phone"], MAX + 88, 32, f)
        email == draw_text_fit(<<LX + 52, ye + 4>>, data["email"], MAX + 88, 32, f)
    IN  [tx |-> tx, MAX |-> MAX, bar |-> bar,
         name |-> name, title |-> title, org |-> org,
         phone_y |-> yp, phone |-> phone, email_y |-> ye, email |-> email,
         draws |-> <<name>> \o title \o org \o <<phone, email>>]

\* The grave accent (U+0060), the code delimiter of Markdown
grave == "grave"

\* An exception of class e whose str() is msg
raise(e, msg) == [status |-> "raise", error |-> e, message |-> msg]

\* str(KeyError(key)): the repr of the key
repr(key) == <<"'">> \o key \o <<"'">>

\* The first of data['last'], data['first'], data['phone'], data['email']
\* (lines 98-103, in the order evaluated) that the dict does not have
missing_key(data) ==
    IF ~has(data, "last") THEN <<"l","a","s","t">>
    ELSE IF ~has(data, "first") THEN <<"f","i","r","s","t">>
    ELSE IF ~has(data, "phone") THEN <<"p","h","o","n","e">>
    ELSE <<"e","m","a","i","l">>

overflow_text == <<"Code length overflow">>

unidentified_text == <<"cannot identify image file">>

\* What qr.make(fit=True) can hold at ERROR_CORRECT_H: the bytes of the
\* largest symbol (version 40) in byte mode; more raises DataOverflowError
QR_CAPACITY == 1273

RequiredKeys == {"last", "first", "phone", "email"}

\* make_card(data) under font environment f: the card it returns, described
\* by the theme used, the payload encoded, whether a logo was embedded and
\* the text drawn; or the exception it raises
make_card(data, f) ==
    LET key == IF has(data, "theme") THEN data["theme"] ELSE ocean
    IN  IF key \notin ThemeKeys THEN raise("KeyError", repr(key))
        ELSE IF ~(RequiredKeys \subseteq DOMAIN data)
        THEN raise("KeyError", repr(missing_key(data)))
        ELSE IF Len(vcard_of(data)) > QR_CAPACITY
        THEN raise("DataOverflowError", overflow_text)
        ELSE LET logo_pil == get_logo_image(get_logo_bytes(data))
             IN  IF logo_pil.raised
                 THEN raise("UnidentifiedImageError", unidentified_text)
                 ELSE [status |-> "ok",
                       theme  |-> key,
                       colors |-> THEMES[key],
                       vcard  |-> vcard_of(data),
                       logo   |-> logo_pil.image,
                       layout |-> layout_of(data, logo_pil.image, f)]

\* The dict after a make_card that consumed the logo it embedded
data_after_logo_popped(data) ==
    [k \in (DOMAIN data) \ {"logo_bytes"} |-> data[k]]

\* The dict passed to make_card, after the call: make_card reads data with
\* data[...] and data.get(...) only, and get_logo_image wraps the bytes in a
\* fresh BytesIO, so no key is assigned, popped or changed in place
data_after_make_card(data) == data

----------------------------------------------------------------------------
(* Updates                                                                 *)

\* An update: a text message that is not a command, a photo, a document
\* with an image mime type, any other message (a sticker, a non-image
\* file), a command, or a button press carrying callback data.
Text(t) == [kind |-> "text", text |-> t, cmd |-> "", data |-> <<>>, blob |-> <<>>]

Photo(b) == [kind |-> "photo", text |-> <<>>, cmd |-> "", data |-> <<>>, blob |-> b]

Document(b) == [kind |-> "document", text |-> <<>>, cmd |-> "", data |-> <<>>, blob |-> b]

Other == [kind |-> "other", text |-> <<>>, cmd |-> "", data |-> <<>>, blob |-> <<>>]

Command(c) == [kind |-> "command", text |-> <<>>, cmd |-> c, data |-> <<>>, blob |-> <<>>]

Callback(d) == [kind |-> "callback", text |-> <<>>, cmd |-> "", data |-> d, blob |-> <<>>]

theme_ == <<"t","h","e","m","e","_">>
gen == <<"g","e","n">>
restart == <<"r","e","s","t","a","r","t">>
skip == <<"s","k","i","p">>

\* The text messages tried at every step
TextInputs ==
    { <<" ","A","l"," ">>,                                  \* a name, padded
      <<"9","8","7","6","5","-","4","3","2","1","0">>,      \* ten digits
      <<"+","9","1"," ","9","8","7","6","5","4","3","2","1","0">>,
      <<"a","@","b",".","c">>,                              \* an email
      <<"S","k","i","p">>,                                  \* skip, capitalised
      <<"A","\n","B">>,                                     \* two lines
      Rep(<<"x">>, QR_CAPACITY) }                           \* a very long line

\* Telegram re-encodes photos as JPEG; a document is whatever was uploaded
PhotoInputs == { <<"FFD8", "pixels">> }

DocumentInputs == { <<"junk">> }

CommandInputs == {"start", "cancel", "clear", "help", "settings"}

\* The buttons the bot shows, and one payload no keyboard of the bot carries
\* (callback data is chosen by the client)
CallbackInputs ==
    { theme_ \o ocean, theme_ \o gold, theme_ \o <<grave>>, gen, restart }

Updates ==
    {Text(t) : t \in TextInputs} \cup {Photo(b) : b \in PhotoInputs}
        \cup {Document(b) : b \in DocumentInputs} \cup {Other}
        \cup {Command(c) : c \in CommandInputs}
        \cup {Callback(d) : d \in CallbackInputs}

\* The handlers app holds after conv, in order (lines 406-408)
route_app(u) ==
    IF u.kind # "command" THEN "none"
    ELSE IF u.cmd = "help" THEN "help_command"
    ELSE IF u.cmd = "clear" THEN "clear_command"
    ELSE "unknown"

\* The fallbacks without CommandHandler("cancel", cancel)
route_fallbacks_no_cancel(u) ==
    IF u.kind # "command" THEN "none"
    ELSE IF u.cmd = "clear" THEN "clear_command"
    ELSE IF u.cmd = "help" THEN "help_command"
    ELSE "none"

\* conv's fallbacks (lines 398-402)
route_fallbacks(u) ==
    IF u.kind # "command" THEN "none"
    ELSE IF u.cmd = "cancel" THEN "cancel"
    ELSE IF u.cmd = "clear" THEN "clear_command"
    ELSE IF u.cmd = "help" THEN "help_command"
    ELSE "none"

\* The handler of conv's state s that accepts u (lines 382-397)
route_state(s, u) ==
    CASE s = FIRST /\ u.kind = "text" -> "step_first"
      [] s = LAST /\ u.kind = "text" -> "step_last"
      [] s = PHONE /\ u.kind = "text" -> "step_phone"
      [] s = EMAIL /\ u.kind = "text" -> "step_email"
      [] s = ORG /\ u.kind = "text" -> "step_org"
      [] s = TITLE /\ u.kind = "text" -> "step_title"
      [] s = LOGO /\ u.kind \in {"photo", "document", "text"} -> "step_logo"
      [] s = THEME /\ u.kind = "callback" /\ startswith(u.data, theme_)
            -> "step_theme"
      [] s = CONFIRM /\ u.kind = "callback" /\ u.data \in {gen, restart}
            -> "step_confirm"
      [] OTHER -> "none"

\* Dispatch as with allow_reentry=True: /start is taken by the entry point
\* in every state
route_reentry(s, u) ==
    IF u.kind = "command" /\ u.cmd = "start" THEN "start"
    ELSE IF s = END THEN route_app(u)
    ELSE IF route_state(s, u) # "none" THEN route_state(s, u)
    ELSE IF route_fallbacks(u) # "none" THEN route_fallbacks(u)
    ELSE route_app(u)

\* The callback that handles update u when the conversation is in state s:
\* conv first (its entry point when no conversation is active, else the
\* state's handlers, then the fallbacks), then the handlers added after it.
route(s, u) ==
    IF s = END
    THEN IF u.kind = "command" /\ u.cmd = "start" THEN "start" ELSE route_app(u)
    ELSE IF route_state(s, u) # "none" THEN route_state(s, u)
    ELSE IF route_fallbacks(u) # "none" THEN route_fallbacks(u)
    ELSE route_app(u)

----------------------------------------------------------------------------
(* Conversation                                                            *)

MainChat == "main"
OtherChat == "other"
Chats == {MainChat, OtherChat}

NoRow == [theme |-> <<>>, y |-> -1, fill |-> <<>>]

NoCard == [called |-> FALSE, data |-> EmptyDict, result |-> raise("", <<>>)]

TypeOK ==
    /\ conv \in [Chats -> DialogueStates \cup {END}]
    /\ DOMAIN user_data \subseteq
           {"first", "last", "phone", "email", "org", "title", "logo_bytes", "theme"}
    /\ chat \in Chats
    /\ prev \in DialogueStates \cup {END}
    /\ card.called \in BOOLEAN
    /\ font \in Fonts

Init ==
    /\ conv = [c \in Chats |-> END]
    /\ user_data = EmptyDict
    /\ chat = MainChat
    /\ handler = "none"
    /\ prev = END
    /\ out = <<>>
    /\ card = NoCard
    /\ font \in Fonts
    /\ row = NoRow

\* What every handled update records: who handled it and what was sent
log(c, h, sent, k) ==
    /\ chat' = c
    /\ handler' = h
    /\ prev' = conv[c]
    /\ out' = sent
    /\ card' = k
    /\ font' = font
    /\ row' = row

\* The callback returned state s (None: the state is kept)
goto(c, s) == conv' = [conv EXCEPT ![c] = s]

start(c, u) ==
    /\ route(conv[c], u) = "start"
    /\ user_data' = EmptyDict
    /\ goto(c, FIRST)
    /\ log(c, "start", <<"ask_first">>, NoCard)

help_command(c, u) ==
    /\ route(conv[c], u) = "help_command"
    /\ UNCHANGED <<conv, user_data>>
    /\ log(c, "help_command", <<"help">>, NoCard)

\* As a fallback its END ends the conversation; as a handler of app its
\* return value is dropped, and no conversation is active then.
clear_command(c, u) ==
    /\ route(conv[c], u) = "clear_command"
    /\ user_data' = EmptyDict
    /\ goto(c, END)
    /\ log(c, "clear_command", <<"cleared">>, NoCard)

step_first(c, u) ==
    /\ route(conv[c], u) = "step_first"
    /\ LET t == strip(u.text)
       IN  IF ~valid_name(t)
           THEN /\ UNCHANGED <<conv, user_data>>
                /\ log(c, "step_first", <<"retry_first">>, NoCard)
           ELSE /\ user_data' = put(user_data, "first", t)
                /\ goto(c, LAST)
                /\ log(c, "step_first", <<"ask_last">>, NoCard)

step_last(c, u) ==
    /\ route(conv[c], u) = "step_last"
    /\ LET t == strip(u.text)
       IN  IF ~valid_name(t)
           THEN /\ UNCHANGED <<conv, user_data>>
                /\ log(c, "step_last", <<"retry_last">>, NoCard)
           ELSE /\ user_data' = put(user_data, "last", t)
                /\ goto(c, PHONE)
                /\ log(c, "step_last", <<"ask_phone">>, NoCard)

step_phone(c, u) ==
    /\ route(conv[c], u) = "step_phone"
    /\ LET t == strip(u.text)
       IN  IF ~valid_phone(t)
           THEN /\ UNCHANGED <<conv, user_data>>
                /\ log(c, "step_phone", <<"retry_phone">>, NoCard)
           ELSE /\ user_data' = put(user_data, "phone", fmt_phone(t))
                /\ goto(c, EMAIL)
                /\ log(c, "step_phone", <<"ask_email">>, NoCard)

step_email(c, u) ==
    /\ route(conv[c], u) = "step_email"
    /\ LET t == strip(u.text)
       IN  IF ~valid_email(t)
           THEN /\ UNCHANGED <<conv, user_data>>
                /\ log(c, "step_email", <<"retry_email">>, NoCard)
           ELSE /\ user_data' = put(user_data, "email", t)
                /\ goto(c, ORG)
                /\ log(c, "step_email", <<"ask_org">>, NoCard)

step_org(c, u) ==
    /\ route(conv[c], u) = "step_org"
    /\ LET t == strip(u.text)
       IN  user_data' = put(user_data, "org", IF lower(t) = skip THEN <<>> ELSE t)
    /\ goto(c, TITLE)
    /\ log(c, "step_org", <<"ask_title">>, NoCard)

step_title(c, u) ==
    /\ route(conv[c], u) = "step_title"
    /\ LET t == strip(u.text)
       IN  user_data' = put(user_data, "title", IF lower(t) = skip THEN <<>> ELSE t)
    /\ goto(c, LOGO)
    /\ log(c, "step_title", <<"ask_logo">>, NoCard)

step_logo(c, u) ==
    /\ route(conv[c], u) = "step_logo"
    /\ IF u.kind = "text" /\ lower(strip(u.text)) = skip
       THEN /\ user_data' = put(user_data, "logo_bytes", None)
            /\ goto(c, THEME)
            /\ log(c, "step_logo", <<"ask_theme">>, NoCard)
       ELSE IF u.kind \in {"photo", "document"}
       THEN /\ user_data' = put(user_data, "logo_bytes", Bytes(u.blob))
            /\ goto(c, THEME)
            /\ log(c, "step_logo", <<"ask_theme">>, NoCard)
       ELSE /\ UNCHANGED <<conv, user_data>>
            /\ log(c, "step_logo", <<"retry_logo">>, NoCard)

\* The confirmation text reads d['first'], d['last'], d['phone'], d['email']
\* and THEMES[d['theme']]; a KeyError there leaves the handler before it
\* sends or returns anything, so the state is kept.
step_theme(c, u) ==
    /\ route(conv[c], u) = "step_theme"
    /\ LET d == put(user_data, "theme", replace(u.data, theme_, <<>>))
       IN  /\ user_data' = d
           /\ IF RequiredKeys \subseteq DOMAIN d /\ d["theme"] \in ThemeKeys
              THEN /\ goto(c, CONFIRM)
                   /\ log(c, "step_theme", <<"confirm">>, NoCard)
              ELSE /\ UNCHANGED conv
                   /\ log(c, "step_theme", <<>>, NoCard)

\* How often character ch occurs in text t
RECURSIVE count(_, _)
count(t, ch) ==
    IF t = <<>> THEN 0
    ELSE (IF Head(t) = ch THEN 1 ELSE 0) + count(Tail(t), ch)

\* The text of the reply in the except branch (line 349), with the static
\* parts shortened to one token each
failure_text(e) ==
    <<"Something went wrong. Error: ", grave>> \o e.message
        \o <<grave, " Type /start to try again.">>

\* parse_mode=MARKDOWN: a grave accent opens a code entity that runs to the
\* next one; a text whose last entity is not closed is refused by the Bot
\* API and reply_text raises BadRequest
parses_as_markdown(t) == count(t, grave) % 2 = 0

\* The gen branch: the card is sent, or the except branch replies with the
\* failure text; when that reply itself raises, the handler is left before
\* its return and the state is kept.
step_confirm(c, u) ==
    /\ route(conv[c], u) = "step_confirm"
    /\ IF u.data = restart
       THEN /\ user_data' = EmptyDict
            /\ goto(c, END)
            /\ log(c, "step_confirm", <<"restarted">>, NoCard)
       ELSE LET r == make_card(user_data, font)
                k == [called |-> TRUE, data |-> user_data, result |-> r]
            IN  /\ user_data' = data_after_make_card(user_data)
                /\ IF r.status = "ok"
                   THEN /\ goto(c, END)
                        /\ log(c, "step_confirm", <<"generating", "document">>, k)
                   ELSE IF parses_as_markdown(failure_text(r))
                   THEN /\ goto(c, END)
                        /\ log(c, "step_confirm", <<"generating", "failed">>, k)
                   ELSE /\ UNCHANGED conv
                        /\ log(c, "step_confirm", <<"generating">>, k)

cancel(c, u) ==
    /\ route(conv[c], u) = "cancel"
    /\ user_data' = EmptyDict
    /\ goto(c, END)
    /\ log(c, "cancel", <<"cancelled">>, NoCard)

\* unknown as a callback that clears the answers and returns END
unknown_ends(c, u) ==
    /\ route(conv[c], u) = "unknown"
    /\ user_data' = EmptyDict
    /\ goto(c, END)
    /\ log(c, "unknown", <<"unknown">>, NoCard)

unknown(c, u) ==
    /\ route(conv[c], u) = "unknown"
    /\ UNCHANGED <<conv, user_data>>
    /\ log(c, "unknown", <<"unknown">>, NoCard)

\* No handler accepts the update: nothing runs
unhandled(c, u) ==
    /\ route(conv[c], u) = "none"
    /\ UNCHANGED <<conv, user_data>>
    /\ log(c, "none", <<>>, NoCard)

\* One update of the user in chat c is dispatched
handle(c, u) ==
    \/ start(c, u)
    \/ help_command(c, u)
    \/ clear_command(c, u)
    \/ step_first(c, u)
    \/ step_last(c, u)
    \/ step_phone(c, u)
    \/ step_email(c, u)
    \/ step_org(c, u)
    \/ step_title(c, u)
    \/ step_logo(c, u)
    \/ step_theme(c, u)
    \/ step_confirm(c, u)
    \/ cancel(c, u)
    \/ unknown(c, u)
    \/ unhandled(c, u)

\* One conversation: the user talks to the bot in one chat
Next == \E u \in Updates : handle(MainChat, u)

Spec == Init /\ [][Next]_vars

----------------------------------------------------------------------------
(* make_card as a function of its argument: every record of a bounded set  *)
(* is rendered once, under either font environment                         *)

MaxOrgLen == 200
MaxTitleLen == 200
MaxLocalLen == 200

canonical_phone == <<"+","9","1","9","8","7","6","5","4","3","2","1","0">>

FirstInputs == { <<"A","d","a">>, Rep(<<"A">>, NameMax) }

LastInputs == { <<"L","o","v","e","l","a","c","e">>, Rep(<<"B">>, NameMax) }

EmailInputs ==
    { <<"a","d","a","@","e","x",".","c","o">>,
      Rep(<<"a">>, MaxLocalLen) \o <<"@","b",".","c">> }

\* "unset" stands for a key the dict does not have
Unset == <<"unset">>

OrgInputs ==
    { Unset, <<>>, <<"A","c","m","e">>, Rep(<<"x">>, MaxOrgLen),
      Rep(<<"x">>, QR_CAPACITY) }

TitleInputs == { <<>>, <<"C","E","O">>, Rep(<<"y">>, MaxTitleLen) }

ThemeInputs == { Unset, ocean, gold, <<"x">>, <<grave>> }

LogoInputs ==
    { Bytes(Unset), None, Bytes(<<>>), Bytes(<<"FFD8", "pixels">>), Bytes(<<"junk">>) }

\* The dict with the given values, without the keys whose value is Unset
record(fi, la, ph, em, og, ti, th, lg) ==
    LET all == [first |-> fi, last |-> la, phone |-> ph, email |-> em,
                org |-> og, title |-> ti, theme |-> th, logo_bytes |-> lg]
        keys == {k \in {"first", "last", "phone", "email", "org", "title", "theme"} :
                     all[k] # Unset}
                \cup (IF lg = Bytes(Unset) THEN {} ELSE {"logo_bytes"})
    IN  [k \in keys |-> all[k]]

Records ==
    { record(fi, la, canonical_phone, em, og, ti, th, lg) :
        fi \in FirstInputs, la \in LastInputs, em \in EmailInputs,
        og \in OrgInputs, ti \in TitleInputs, th \in ThemeInputs,
        lg \in LogoInputs }

InitCard ==
    /\ conv = [c \in Chats |-> END]
    /\ user_data \in Records
    /\ chat = MainChat
    /\ handler = "none"
    /\ prev = END
    /\ out = <<>>
    /\ card = NoCard
    /\ font \in Fonts
    /\ row = NoRow

render ==
    /\ ~card.called
    /\ card' = [called |-> TRUE, data |-> user_data,
                result |-> make_card(user_data, font)]
    /\ handler' = "make_card"
    /\ user_data' = data_after_make_card(user_data)
    /\ UNCHANGED <<conv, chat, prev, out, font, row>>

NextCard == render

SpecCard == InitCard /\ [][NextCard]_vars

----------------------------------------------------------------------------
(* The background of make_card: the rows of a theme, filled top to bottom  *)

\* One pass of "for y in range(H)" under the theme of the call
fill_row ==
    \E k \in ThemeKeys :
        /\ row = NoRow \/ k = row.theme
        /\ row.y + 1 < H
        /\ row' = [theme |-> k, y |-> row.y + 1,
                   fill |-> gradient_fill(THEMES[k].bg[1], THEMES[k].bg[2],
                                          row.y + 1)]
        /\ handler' = "make_card"
        /\ UNCHANGED <<conv, user_data, chat, prev, out, card, font>>

NextGradient == fill_row

SpecGradient == Init /\ [][NextGradient]_vars

----------------------------------------------------------------------------
(* Two chats: the user talks to the bot in two chats at once, and the      *)
(* updates of both arrive in any order                                     *)

\* One text that passes each validator
ChatTexts ==
    { <<" ","A","l"," ">>,
      <<"9","8","7","6","5","-","4","3","2","1","0">>,
      <<"a","@","b",".","c">> }

\* In the main chat the user walks the dialogue to its end; in the other
\* chat they start, answer, cancel and clear, and their client sends one
\* theme payload that no keyboard of the bot carries.
ChatUpdates(c) ==
    {Text(t) : t \in ChatTexts} \cup {Photo(b) : b \in PhotoInputs}
        \cup (IF c = MainChat
              THEN {Other} \cup {Command(k) : k \in CommandInputs}
                       \cup {Callback(d) : d \in {theme_ \o ocean, gen, restart}}
              ELSE {Command(k) : k \in {"start", "cancel", "clear"}}
                       \cup {Callback(theme_ \o <<grave>>)})

NextChats == \E c \in Chats : \E u \in ChatUpdates(c) : handle(c, u)

SpecChats == Init /\ [][NextChats]_vars

----------------------------------------------------------------------------
(* Properties                                                              *)

without(d, k) == [x \in (DOMAIN d) \ {k} |-> d[x]]

\* "+91" followed by ten digits of which the first is 6-9
is_canonical_phone(s) ==
    /\ Len(s) = 13
    /\ SubSeq(s, 1, 3) = plus91
    /\ s[4] \in {"6","7","8","9"}
    /\ \A i \in 4..13 : s[i] \in Digits

\* The make_card call of step_confirm, if the last update made one
rendered == handler = "step_confirm" /\ card.called

\* C1: whenever step_confirm calls make_card, the record holds first and
\* last that satisfy valid_name, an email that satisfies valid_email, a
\* phone of the form +91 and ten digits starting with 6-9, and a theme that
\* is a key of THEMES.
C1_RenderedRecordIsValid ==
    rendered =>
        LET d == card.data
        IN  /\ (RequiredKeys \cup {"theme"}) \subseteq DOMAIN d
            /\ valid_name(d["first"])
            /\ valid_name(d["last"])
            /\ valid_email(d["email"])
            /\ is_canonical_phone(d["phone"])
            /\ d["theme"] \in ThemeKeys

\* A card was generated from answers that needed stripping and formatting,
\* after an unknown theme had been pressed earlier in the conversation.
C1_Witness ==
    /\ rendered
    /\ card.data["first"] = <<"A","l">>
    /\ card.data["phone"] = canonical_phone
    /\ card.data["theme"] = gold

\* C2: theme resolution in make_card never fails: a known key selects its
\* theme, and an unset or unknown theme renders exactly as theme 'ocean'.
C2_ThemeNeverFails ==
    card.called =>
        LET d == card.data
        IN  IF has(d, "theme") /\ d["theme"] \in ThemeKeys
            THEN card.result.status = "ok" => card.result.theme = d["theme"]
            ELSE card.result = make_card(put(d, "theme", ocean), font)

\* C3: make_card with non-empty undecodable logo_bytes returns the same card
\* as the same record without logo_bytes (stated for the records that render
\* without a logo).
C3_UndecodableLogoIsNoLogo ==
    (/\ rendered
     /\ ~get_logo_bytes(card.data).none
     /\ get_logo_bytes(card.data).bytes # <<>>
     /\ Head(get_logo_bytes(card.data).bytes) \notin ImageSignatures
     /\ make_card(without(card.data, "logo_bytes"), font).status = "ok")
    => card.result = make_card(without(card.data, "logo_bytes"), font)

\* C4: every text make_card draws through draw_text_fit is drawn at a size
\* of at least 18 and at most its start size.
C4_SizeAtLeastFloor ==
    (card.called /\ card.result.status = "ok") =>
        \A i \in DOMAIN card.result.layout.draws :
            LET dr == card.result.layout.draws[i]
            IN  dr.size >= 18 /\ dr.size <= dr.start_size

\* The sizes start, start-3, start-6, ... above size s
sizes_above(start_size, s) ==
    {z \in (s + 1)..start_size : (start_size - z) % 3 = 0}

\* C5: every text drawn through draw_text_fit fits its max_width unless it
\* is drawn at exactly 18, and a size above 18 is the largest of start,
\* start-3, start-6, ... at which the text fits.
C5_FitsUnlessAtFloor ==
    (card.called /\ card.result.status = "ok") =>
        \A i \in DOMAIN card.result.layout.draws :
            LET dr == card.result.layout.draws[i]
            IN  /\ dr.width <= dr.max_width \/ dr.size = 18
                /\ dr.size > 18 =>
                     /\ dr.width <= dr.max_width
                     /\ \A z \in sizes_above(dr.start_size, dr.size) :
                            textlength(dr.text, z, font) > dr.max_width

\* The lines of a payload, and those among them that begin with a tag
lines_of(payload) == split(payload, "\n")

tagged(payload, tag) ==
    SelectSeq(lines_of(payload), LAMBDA l : startswith(l, tag))

value_of(line, tag) == SubSeq(line, Len(tag) + 1, Len(line))

\* C6: splitting the payload on newlines and reading the N, ORG, TITLE, TEL
\* and EMAIL lines recovers first, last, phone and email, recovers org and
\* title when they were non-empty, and finds no ORG or TITLE line when the
\* field was empty.
C6_PayloadRoundTrips ==
    (rendered /\ card.result.status = "ok") =>
        LET d == card.data
            v == card.result.vcard
        IN  /\ Len(tagged(v, tag_N)) = 1
            /\ split(value_of(tagged(v, tag_N)[1], tag_N), ";")
                   = <<d["last"], d["first"], <<>>, <<>>, <<>> >>
            /\ tagged(v, tag_TEL) = <<tag_TEL \o d["phone"]>>
            /\ tagged(v, tag_EMAIL) = <<tag_EMAIL \o d["email"]>>
            /\ tagged(v, tag_ORG) =
                   (IF d["org"] = <<>> THEN <<>> ELSE <<tag_ORG \o d["org"]>>)
            /\ tagged(v, tag_TITLE) =
                   (IF d["title"] = <<>> THEN <<>> ELSE <<tag_TITLE \o d["title"]>>)

\* C7: the payload's lines are BEGIN:VCARD, VERSION:3.0, N, FN, ORG iff org
\* is non-empty, TITLE iff title is non-empty, TEL, EMAIL, END:VCARD, in
\* this order: 7 lines plus one per non-empty optional field, none blank.
C7_PayloadLineSequence ==
    (rendered /\ card.result.status = "ok") =>
        LET d == card.data
            ls == lines_of(card.result.vcard)
            n == 7 + (IF d["org"] # <<>> THEN 1 ELSE 0)
                   + (IF d["title"] # <<>> THEN 1 ELSE 0)
            o == IF d["org"] # <<>> THEN 1 ELSE 0
        IN  /\ Len(ls) = n
            /\ \A i \in DOMAIN ls : ls[i] # <<>>
            /\ ls[1] = line_BEGIN
            /\ ls[2] = line_VERSION
            /\ ls[3] = tag_N \o d["last"] \o <<";">> \o d["first"] \o <<";",";",";">>
            /\ ls[4] = tag_FN \o d["first"] \o <<" ">> \o d["last"]
            /\ d["org"] # <<>> => ls[5] = tag_ORG \o d["org"]
            /\ d["title"] # <<>> => ls[5 + o] = tag_TITLE \o d["title"]
            /\ ls[n - 2] = tag_TEL \o d["phone"]
            /\ ls[n - 1] = tag_EMAIL \o d["email"]
            /\ ls[n] = line_END

\* C8: whenever the conversation has ended, by whatever route, the stored
\* answers are empty (and stay so until the next /start).
C8_EndedMeansEmpty == conv[MainChat] = END => user_data = EmptyDict

\* C9: from every dialogue state, /cancel and /clear are handled by cancel
\* and clear_command, end the conversation and empty the stored answers.
C9_CancelAndClearAlwaysWork ==
    [][\A u \in {Command("cancel"), Command("clear")} :
          (conv[MainChat] \in DialogueStates /\ handle(MainChat, u)) =>
              /\ handler' = (IF u.cmd = "cancel" THEN "cancel" ELSE "clear_command")
              /\ conv'[MainChat] = END
              /\ user_data' = EmptyDict]_vars

\* /cancel arrived at CONFIRM, with every answer given, and left nothing
C9_Witness ==
    /\ handler = "cancel"
    /\ prev = CONFIRM
    /\ conv[MainChat] = END
    /\ user_data = EmptyDict

\* C10: every update leaves the state unchanged, advances it to the
\* immediately next state or ends the conversation; a conversation begins
\* at FIRST; and make_card is called only from CONFIRM.
C10_LinearDialogue ==
    /\ [][LET s == conv[MainChat]
              t == conv'[MainChat]
          IN  \/ t = s
              \/ t = END
              \/ s = END /\ t = FIRST
              \/ s \in FIRST..THEME /\ t = s + 1]_vars
    /\ [](card.called => handler = "step_confirm" /\ prev = CONFIRM)

\* The card was generated after the whole dialogue was walked through
C10_Witness == rendered /\ prev = CONFIRM /\ conv[MainChat] = END


\* C14: for every theme, every row y in 0..H-1 and every channel, the fill
\* differs from top + (bottom - top) * y / H by at most 1 and lies between
\* the two stops. The difference is compared after scaling by H.
C14_GradientWithinRounding ==
    row # NoRow =>
        LET top    == THEMES[row.theme].bg[1]
            bottom == THEMES[row.theme].bg[2]
        IN  \A i \in 1..3 :
                LET exactH == top[i] * H + (bottom[i] - top[i]) * row.y
                    gotH   == row.fill[i] * H
                    lo     == IF top[i] <= bottom[i] THEN top[i] ELSE bottom[i]
                    hi     == IF top[i] <= bottom[i] THEN bottom[i] ELSE top[i]
                IN  /\ gotH - exactH <= H
                    /\ exactH - gotH <= H
                    /\ lo <= row.fill[i]
                    /\ row.fill[i] <= hi

C14_Witness == row.theme = rose /\ row.y = H - 1 /\ row.fill = <<154, 39, 79>>

\* C12: in every card make_card returns, whatever of title and org is
\* present, the phone row is drawn at y >= 335, at exactly 335 when title
\* and org are both absent, and the email row exactly 54 below it; the
\* texts of both rows sit 4 below their icons.
C12_PhoneBlockAnchored ==
    (card.called /\ card.result.status = "ok") =>
        LET l == card.result.layout
        IN  /\ l.phone_y >= 335
            /\ (~truthy_text(card.data, "title") /\ ~truthy_text(card.data, "org"))
                   => l.phone_y = 335
            /\ l.email_y = l.phone_y + 54
            /\ l.phone.xy[2] = l.phone_y + 4
            /\ l.email.xy[2] = l.email_y + 4

C12_Witness ==
    /\ card.called /\ card.result.status = "ok"
    /\ truthy_text(card.data, "title") /\ truthy_text(card.data, "org")
    /\ card.result.layout.phone_y = 336
    /\ card.result.layout.email_y = 390

\* C13: the accent bar starts at LX = 60 and is as wide as the column
\* computed for the name, with a corner logo and without one.
C13_BarSpansNameColumn ==
    (card.called /\ card.result.status = "ok") =>
        LET l == card.result.layout
        IN  /\ l.bar[1] = LX
            /\ l.bar[3] - l.bar[1] = l.MAX
            /\ l.MAX = l.name.max_width
            /\ l.MAX = (IF card.result.logo THEN qr_x - LX - 30 - CORNER_SHIFT
                                             ELSE qr_x - LX - 30)

\* C17: for every text drawn through draw_text_fit, x plus the max_width
\* passed is at most qr_x - pad, with a corner logo and without one.
C17_BudgetsLeftOfCodeBlock ==
    (card.called /\ card.result.status = "ok") =>
        \A i \in DOMAIN card.result.layout.draws :
            LET d == card.result.layout.draws[i]
            IN  d.xy[1] + d.max_width <= qr_x - pad

\* C11: whenever make_card raises during step_confirm, no document is sent,
\* exactly one failure message is sent, the conversation of that chat has
\* ended, and a /start that follows is taken by the entry point, which
\* begins a new conversation at FIRST.
C11_FailedRenderEndsWithOneMessage ==
    (rendered /\ card.result.status = "raise") =>
        /\ count(out, "document") = 0
        /\ count(out, "failed") = 1
        /\ conv[chat] = END
        /\ route(conv[chat], Command("start")) = "start"

\* C16: while a conversation is active in the main chat, no update handled
\* for the same user in the other chat (/start, a step answer, /cancel,
\* /clear) changes or empties the answers stored for it.
C16_ChatsDoNotInterfere ==
    [][(chat' = OtherChat /\ conv[MainChat] \in DialogueStates)
          => user_data' = user_data]_vars

rejected(s, u) ==
    \/ s \in {FIRST, LAST} /\ u.kind = "text" /\ ~valid_name(strip(u.text))
    \/ s = PHONE /\ u.kind = "text" /\ ~valid_phone(strip(u.text))
    \/ s = EMAIL /\ u.kind = "text" /\ ~valid_email(strip(u.text))
    \/ s = LOGO /\ u.kind = "text" /\ lower(strip(u.text)) # skip
    \/ s = LOGO /\ u.kind = "other"

reprompt(s) ==
    CASE s = FIRST -> "retry_first"
      [] s = LAST -> "retry_last"
      [] s = PHONE -> "retry_phone"
      [] s = EMAIL -> "retry_email"
      [] s = LOGO -> "retry_logo"

\* C18: a rejected message leaves the dialogue state and every stored
\* answer unchanged, and the step's re-prompt is the one thing sent.
C18_RejectedInputOnlyReprompts ==
    [][\A u \in Updates :
          (rejected(conv[MainChat], u) /\ handle(MainChat, u)) =>
              /\ conv' = conv
              /\ user_data' = user_data
              /\ out' = <<reprompt(conv[MainChat])>>]_vars

\* C19: in every dialogue state /help, /start and a command the bot does
\* not know leave the dialogue state and all stored answers unchanged and
\* produce one reply.
C19_CommandsOnlyReply ==
    [][\A u \in {Command("help"), Command("start"), Command("settings")} :
          (conv[MainChat] \in DialogueStates /\ handle(MainChat, u)) =>
              /\ conv' = conv
              /\ user_data' = user_data
              /\ out' = (IF u.cmd = "help" THEN <<"help">> ELSE <<"unknown">>)
              /\ handler' = (IF u.cmd = "help" THEN "help_command" ELSE "unknown")]_vars

\* A command the bot does not know (or /start) arrived at CONFIRM, where
\* every answer is stored, and nothing moved
C19_Witness ==
    /\ handler = "unknown"
    /\ prev = CONFIRM
    /\ conv[MainChat] = CONFIRM
    /\ RequiredKeys \subseteq DOMAIN user_data
    /\ has(user_data, "theme")

====
